---- MODULE Spec2Model ----
(***************************************************************************)
(* exam-analyzer-api: the subtopic matcher (reference store, fuzzy match,  *)
(* cross-exam fallback), the response normalizer (parse_ai_response), the  *)
(* orchestrator (chunk_pages, analyze, the /analyze endpoint) and the      *)
(* classifier call with its retries.                                       *)
(*                                                                         *)
(* The repository holds the matcher twice: the matcher module              *)
(* (src/xlsx_generator.py) and the single-file service (src/app.py).       *)
(* Definitions prefixed App model the single-file service.                 *)
(***************************************************************************)
EXTENDS Integers, Sequences, FiniteSets, TLC

VARIABLES
    files,        \* reference_data directory: exam -> subject -> file state
    cache,        \* xlsx_generator.py  _cache      (key -> rows)
    ref_cache,    \* app.py             _ref_cache  (key -> rows)
    score,        \* fuzz.token_sort_ratio for the question at hand
    op,           \* which operation ran ("idle" before any)
    args,         \* the arguments it ran with
    result,       \* what it returned
    raw,          \* parse_ai_response: raw_content, as a sequence of tokens
    inner,        \* the JSON text inside the fence, when raw was fenced
    payload,      \* the value of the "questions" key of the response
    res,          \* what parse_ai_response returned or raised
    page_images,  \* analyze, chunk_pages: the rendered pages
    max_pages_per_chunk,  \* chunk_pages: the limit it is called with
    chunks,       \* what chunk_pages returned
    supplied,     \* analyze: the exam_type argument
    replies,      \* the classifier's reply to each chunk dispatched so far
    all_results,  \* analyze: all_results
    detected_exam,\* analyze: detected_exam
    pc,           \* analyze: "idle", "loop", "returned" or "raised"
    analysis,     \* what analyze returned
    answer,       \* the reply of the /analyze endpoint
    documents,    \* the report documents written by the endpoint
    extracted,    \* app.py ai_analyze: the questions it is given
    q_text,       \* app.py ai_analyze: the questions as put into the prompt
    frames,       \* call_openrouter: its activations, the innermost last
    posts,        \* the outcome of every HTTP attempt made so far
    sleeps,       \* the delays slept so far, in seconds
    attempt,      \* app.py ai_analyze: the loop variable
    call,         \* the classifier call: who makes it and how it ended
    threads,      \* request threads inside load_reference
    ended         \* the load_reference calls that ended, and cache clears

matcher_vars == <<files, cache, ref_cache, score, op, args, result>>
parser_vars == <<raw, inner, payload, res>>
chunk_vars == <<page_images, max_pages_per_chunk, chunks>>
analyze_vars == <<supplied, replies, all_results, detected_exam, pc, analysis, answer,
                  documents>>

text_vars == <<extracted, q_text>>
caller_vars == <<frames, posts, sleeps, attempt, call>>
store_vars == <<threads, ended>>
rest_vars == <<text_vars, caller_vars, store_vars>>

vars == <<matcher_vars, parser_vars, chunk_vars, analyze_vars, rest_vars>>

(***************************************************************************)
(* Bounds of the model                                                     *)
(***************************************************************************)
MaxEntries == 2      \* entries of the taxonomy file, one lookup at a time
MaxSiblingEntries == 1   \* entries per taxonomy file, with the sibling exam's
MaxPeaks == 2        \* (query, candidate) pairs that score above zero
MaxQuestions == 2    \* questions handed to match_all

(***************************************************************************)
(* Reference data                                                          *)
(***************************************************************************)
Exams == {"JEE", "NEET"}
Subjects == {"Physics", "Mathematics"}
NoSubject == "<absent>"
None == "None"
NA == "N/A"

SubtopicNumbers ==
    [JEE |-> <<"J-1.1", "J-1.2", "J-2.1", "J-2.2">>,
     NEET |-> <<"N-1.1", "N-1.2", "N-2.1", "N-2.2">>]
SubtopicNames ==
    [JEE |-> <<"Projectile motion", "Circular motion", "Lens formula", "Prism">>,
     NEET |-> <<"Motion in a plane", "Uniform circular motion", "Thin lenses", "Dispersion">>]
UnitNames ==
    [JEE |-> <<"Kinematics", "Kinematics", "Optics", "Optics">>,
     NEET |-> <<"Mechanics", "Mechanics", "Ray optics", "Ray optics">>]

\* One row of a taxonomy file.
TaxonomyEntry(e, i) ==
    [subtopic_number |-> SubtopicNumbers[e][i],
     subtopic_name |-> SubtopicNames[e][i],
     unit_name |-> UnitNames[e][i]]

\* The rows of the file of exam e when it holds n entries.
Rows(e, n) == [i \in 1..n |-> TaxonomyEntry(e, i)]

\* A file is absent, unreadable as JSON, or a list of rows (maybe empty).
FileStates(e, most) ==
    {[kind |-> "missing", rows |-> <<>>], [kind |-> "corrupt", rows |-> <<>>]}
        \cup {[kind |-> "rows", rows |-> Rows(e, n)] : n \in 0..most}

MissingFile == [kind |-> "missing", rows |-> <<>>]

\* f"{exam_type}_{subject}"
Key(exam_type, subject) == <<exam_type, subject>>

EmptyCache == [k \in {} |-> <<>>]

CachePut(c, key, rows) == [k \in DOMAIN c \cup {key} |-> IF k = key THEN rows ELSE c[k]]

(***************************************************************************)
(* Reference Store                                                         *)
(***************************************************************************)
\* load_reference without the os.path.exists test: open() raises on a missing file.
load_reference_NoExistsTest(c, fs, exam_type, subject) ==
    LET key == Key(exam_type, subject)
        f == fs[exam_type][subject]
    IN  IF key \in DOMAIN c
        THEN [rows |-> c[key], cache |-> c, raised |-> FALSE]
        ELSE IF f.kind \in {"missing", "corrupt"}
        THEN [rows |-> <<>>, cache |-> c, raised |-> TRUE]
        ELSE [rows |-> f.rows, cache |-> CachePut(c, key, f.rows), raised |-> FALSE]

\* xlsx_generator.py load_reference: a corrupt file makes json.load raise.
load_reference(c, fs, exam_type, subject) ==
    LET key == Key(exam_type, subject)
        f == fs[exam_type][subject]
    IN  IF key \in DOMAIN c
        THEN [rows |-> c[key], cache |-> c, raised |-> FALSE]
        ELSE IF f.kind = "missing"
        THEN [rows |-> <<>>, cache |-> CachePut(c, key, <<>>), raised |-> FALSE]
        ELSE IF f.kind = "corrupt"
        THEN [rows |-> <<>>, cache |-> c, raised |-> TRUE]
        ELSE [rows |-> f.rows, cache |-> CachePut(c, key, f.rows), raised |-> FALSE]

\* app.py load_reference: the read is wrapped in try/except, which caches [].
AppLoadReference(c, fs, exam_type, subject) ==
    LET key == Key(exam_type, subject)
        f == fs[exam_type][subject]
    IN  IF key \in DOMAIN c
        THEN [rows |-> c[key], cache |-> c, raised |-> FALSE]
        ELSE IF f.kind = "missing"
        THEN [rows |-> <<>>, cache |-> CachePut(c, key, <<>>), raised |-> FALSE]
        ELSE IF f.kind = "corrupt"
        THEN [rows |-> <<>>, cache |-> CachePut(c, key, <<>>), raised |-> FALSE]
        ELSE [rows |-> f.rows, cache |-> CachePut(c, key, f.rows), raised |-> FALSE]

(***************************************************************************)
(* Fuzzy Matcher                                                           *)
(***************************************************************************)
FUZZY_MATCH_THRESHOLD == 60
AppThreshold == 60

\* The three query variants, in the order both implementations list them:
\* ai_subtopic, f"{ai_topic}: {ai_subtopic}", f"{ai_topic} {ai_subtopic}".
Queries == <<"subtopic", "topic: subtopic", "topic subtopic">>

\* The two comparison strings of an entry: r["subtopic_name"] and
\* f"{r['unit_name']}: {r['subtopic_name']}".
CandidateForms == <<"subtopic_name", "unit_name: subtopic_name">>

ScoreKey(query, r, form) == <<query, r.subtopic_name, form>>

ScoreKeys(entries) ==
    {ScoreKey(Queries[q], r, CandidateForms[f]) :
        q \in DOMAIN Queries, r \in entries, f \in DOMAIN CandidateForms}

\* fuzz.token_sort_ratio(query.lower(), text.lower()): a value in 0..100 that
\* depends on the two strings only.
token_sort_ratio(sc, query, r, form) == sc[ScoreKey(query, r, form)]

NoMatch(conf) ==
    [subtopic_number |-> NA, matched_name |-> None, unit_name |-> None,
     confidence |-> conf, raised |-> FALSE]

\* The result built with the unit taken from the wrong key of the entry.
MatchOf_WrongUnitKey(r, conf) ==
    [subtopic_number |-> r.subtopic_number, matched_name |-> r.subtopic_name,
     unit_name |-> r.subtopic_name, confidence |-> conf, raised |-> FALSE]

MatchOf(r, conf) ==
    [subtopic_number |-> r.subtopic_number, matched_name |-> r.subtopic_name,
     unit_name |-> r.unit_name, confidence |-> conf, raised |-> FALSE]

Raised ==
    [subtopic_number |-> NA, matched_name |-> None, unit_name |-> None,
     confidence |-> 0, raised |-> TRUE]

\* xlsx_generator.py: candidates, two per entry, in file order.
Candidates(refs) ==
    [c \in 1..(2 * Len(refs)) |->
        [ref |-> refs[((c - 1) \div 2) + 1], form |-> CandidateForms[((c - 1) % 2) + 1]]]

\* xlsx_generator.py: for query in queries: for cand in candidates.
ScanOrder(refs) ==
    LET cands == Candidates(refs)
        n == Len(cands)
    IN  [k \in 1..(Len(Queries) * n) |->
            [query |-> Queries[((k - 1) \div n) + 1],
             ref |-> cands[((k - 1) % n) + 1].ref,
             form |-> cands[((k - 1) % n) + 1].form]]

\* app.py: for r in refs: for text in [...]: for query in [...].
AppScanOrder(refs) ==
    LET nq == Len(Queries)
        nf == Len(CandidateForms)
    IN  [k \in 1..(Len(refs) * nf * nq) |->
            [query |-> Queries[((k - 1) % nq) + 1],
             ref |-> refs[((k - 1) \div (nf * nq)) + 1],
             form |-> CandidateForms[(((k - 1) % (nf * nq)) \div nq) + 1]]]

NoBest == [found |-> FALSE, ref |-> TaxonomyEntry("JEE", 1), score |-> 0]

\* if score > best_score: best_score = score; best_match = cand["ref"]
Better(s, best_score) == s > best_score

RECURSIVE ScanBest(_, _, _, _)
ScanBest(sc, pairs, k, best) ==
    IF k > Len(pairs) THEN best
    ELSE LET p == pairs[k]
             s == token_sort_ratio(sc, p.query, p.ref, p.form)
         IN  ScanBest(sc, pairs, k + 1,
                 IF Better(s, best.score)
                 THEN [found |-> TRUE, ref |-> p.ref, score |-> s]
                 ELSE best)

\* xlsx_generator.py: if best_match: return the entry, whatever its score.
Accept(best) == best.found

\* app.py: if best_match and best_score >= 60.
AppAccept(best) == best.found /\ best.score >= AppThreshold

\* xlsx_generator.py match_subtopic; returns the result and the cache after it.
match_subtopic(c, fs, sc, exam_type, subject) ==
    LET ld == load_reference(c, fs, exam_type, subject)
        best == ScanBest(sc, ScanOrder(ld.rows), 1, NoBest)
    IN  IF ld.raised THEN [result |-> Raised, cache |-> ld.cache]
        ELSE IF ld.rows = <<>> THEN [result |-> NoMatch(0), cache |-> ld.cache]
        ELSE IF Accept(best) THEN [result |-> MatchOf(best.ref, best.score), cache |-> ld.cache]
        ELSE [result |-> NoMatch(0), cache |-> ld.cache]

\* app.py match_subtopic.
AppMatchSubtopic(c, fs, sc, exam_type, subject) ==
    LET ld == AppLoadReference(c, fs, exam_type, subject)
        best == ScanBest(sc, AppScanOrder(ld.rows), 1, NoBest)
    IN  IF ld.rows = <<>> THEN [result |-> NoMatch(0), cache |-> ld.cache]
        ELSE IF AppAccept(best) THEN [result |-> MatchOf(best.ref, best.score), cache |-> ld.cache]
        ELSE [result |-> NoMatch(best.score), cache |-> ld.cache]

(***************************************************************************)
(* Cross-Exam Fallback                                                     *)
(***************************************************************************)
\* alt = "NEET" if exam_type == "JEE" else "JEE"
Sibling(exam_type) == IF exam_type = "JEE" THEN "NEET" ELSE "JEE"

\* q.get("subject", "Mathematics")
SubjectOf(q) == IF q.subject = NoSubject THEN "Mathematics" ELSE q.subject

\* app.py: q.get("subject", subject)
AppSubjectOf(q, subject) == IF q.subject = NoSubject THEN subject ELSE q.subject

\* The four fields both services attach to a question.
Attach(q, r) ==
    [subject |-> q.subject,
     subtopic_number |-> r.subtopic_number,
     match_confidence |-> r.confidence,
     matched_subtopic_name |-> r.matched_name,
     matched_unit_name |-> r.unit_name]

\* The fallback test with <= in place of <.
NeedsFallback_AtThreshold(r) == r.confidence <= FUZZY_MATCH_THRESHOLD

\* if result["confidence"] < FUZZY_MATCH_THRESHOLD
NeedsFallback(r) == r.confidence < FUZZY_MATCH_THRESHOLD

\* The adoption test with >= in place of >.
Adopt_OnTie(alt_result, r) == alt_result.confidence >= r.confidence

\* if alt_result["confidence"] > result["confidence"]: result = alt_result
Adopt(alt_result, r) == alt_result.confidence > r.confidence

\* One iteration of the loop of match_all: the result kept for q, the cache
\* after it and the exam types whose taxonomy was consulted, in order.
MatchOne(c, fs, sc, q, exam_type) ==
    LET subject == SubjectOf(q)
        m == match_subtopic(c, fs, sc, exam_type, subject)
        alt == Sibling(exam_type)
        am == match_subtopic(m.cache, fs, sc, alt, subject)
    IN  IF m.result.raised
        THEN [result |-> Raised, cache |-> m.cache, consulted |-> <<exam_type>>]
        ELSE IF ~NeedsFallback(m.result)
        THEN [result |-> m.result, cache |-> m.cache, consulted |-> <<exam_type>>]
        ELSE IF am.result.raised
        THEN [result |-> Raised, cache |-> am.cache, consulted |-> <<exam_type, alt>>]
        ELSE [result |-> IF Adopt(am.result, m.result) THEN am.result ELSE m.result,
              cache |-> am.cache, consulted |-> <<exam_type, alt>>]

\* xlsx_generator.py match_all: an exception of a lookup leaves the loop.
RECURSIVE match_all(_, _, _, _, _, _, _, _)
match_all(c, fs, sc, questions, exam_type, k, out, log) ==
    IF k > Len(questions)
    THEN [raised |-> FALSE, questions |-> out, consulted |-> log, cache |-> c]
    ELSE LET one == MatchOne(c, fs, sc, questions[k], exam_type)
         IN  IF one.result.raised
             THEN [raised |-> TRUE, questions |-> out,
                   consulted |-> Append(log, one.consulted), cache |-> one.cache]
             ELSE match_all(one.cache, fs, sc, questions, exam_type, k + 1,
                      Append(out, Attach(questions[k], one.result)),
                      Append(log, one.consulted))

\* app.py analyze, step 3: one lookup per question, in the declared exam only.
RECURSIVE AppMatchStep(_, _, _, _, _, _, _, _, _)
AppMatchStep(c, fs, sc, questions, exam_type, subject, k, out, log) ==
    IF k > Len(questions)
    THEN [raised |-> FALSE, questions |-> out, consulted |-> log, cache |-> c]
    ELSE LET m == AppMatchSubtopic(c, fs, sc, exam_type, AppSubjectOf(questions[k], subject))
         IN  AppMatchStep(m.cache, fs, sc, questions, exam_type, subject, k + 1,
                 Append(out, Attach(questions[k], m.result)),
                 Append(log, <<exam_type>>))

(***************************************************************************)
(* Inputs of the matcher                                                   *)
(***************************************************************************)
PeakValues == {40, 60, 75}
EntryScores == {0, 40, 60, 75}

RECURSIVE SubsetsUpTo(_, _)
SubsetsUpTo(S, k) ==
    IF k = 0 THEN {{}}
    ELSE LET smaller == SubsetsUpTo(S, k - 1)
         IN  smaller \cup {T \cup {x} : T \in smaller, x \in S}

\* Score tables in which at most MaxPeaks pairs over the given entries score
\* above zero.
SparseTables(entries) ==
    {[x \in ScoreKeys(entries) |-> IF x \in DOMAIN p THEN p[x] ELSE 0] :
        p \in UNION {[S -> PeakValues] : S \in SubsetsUpTo(ScoreKeys(entries), MaxPeaks)}}

\* Score tables in which only the bare subtopic query scores against the bare
\* subtopic name of an entry.
EntryTables(entries) ==
    {[x \in ScoreKeys(entries) |->
        IF x[1] = Queries[1] /\ x[3] = CandidateForms[1] THEN p[x[2]] ELSE 0] :
        p \in [{r.subtopic_name : r \in entries} -> EntryScores]}

EntriesOf(f) == {f.rows[i] : i \in DOMAIN f.rows}

\* Only Physics taxonomies are deployed; any other subject has no file.
FilesWith(jee, neet) ==
    [e \in Exams |-> [s \in Subjects |->
        IF s = "Physics" THEN (IF e = "JEE" THEN jee ELSE neet) ELSE MissingFile]]

QuestionLists ==
    UNION {[1..n -> [subject : Subjects \cup {NoSubject}]] : n \in 1..MaxQuestions}

NoArgs == [exam_type |-> "JEE", subject |-> "Physics", questions |-> <<>>]
NoResult == <<>>
NoRes ==
    [status |-> "none", questions |-> <<>>,
     decoded |-> [ok |-> FALSE, kind |-> "none", keys |-> {}, shape |-> "absent"]]

NoAnalysis == [exam_type |-> None, questions |-> <<>>, chunks_processed |-> 0]
NoAnswer == [status |-> "none", error |-> FALSE, processing_time |-> FALSE, questions_count |-> 0]

\* chunk_pages has not been called.
ChunkerIdle ==
    /\ page_images = <<>>
    /\ max_pages_per_chunk = 0
    /\ chunks = <<>>

\* No job has been started.
AnalyzeIdle ==
    /\ supplied = None
    /\ replies = <<>>
    /\ all_results = <<>>
    /\ detected_exam = None
    /\ pc = "idle"
    /\ analysis = NoAnalysis
    /\ answer = NoAnswer
    /\ documents = {}

NoCall == [who |-> "none", status |-> "idle"]

\* ai_analyze of app.py has not been called.
TextIdle ==
    /\ extracted = <<>>
    /\ q_text = <<>>

\* No classifier call has been made.
CallerIdle ==
    /\ frames = <<>>
    /\ posts = <<>>
    /\ sleeps = <<>>
    /\ attempt = 0
    /\ call = NoCall

\* No thread is in load_reference.
StoreIdle ==
    /\ threads = <<>>
    /\ ended = <<>>

RestIdle == TextIdle /\ CallerIdle /\ StoreIdle

OrchestratorIdle == ChunkerIdle /\ AnalyzeIdle /\ RestIdle

OrchestratorUnchanged == UNCHANGED <<chunk_vars, analyze_vars, rest_vars>>

MatcherIdle ==
    /\ cache = EmptyCache
    /\ ref_cache = EmptyCache
    /\ op = "idle"
    /\ args = NoArgs
    /\ result = NoResult
    /\ raw = <<>>
    /\ inner = <<>>
    /\ payload = <<>>
    /\ res = NoRes

\* One taxonomy file, any sparse score table over its entries.
InitMatch ==
    /\ \E jee \in FileStates("JEE", MaxEntries) :
        /\ files = FilesWith(jee, MissingFile)
        /\ score \in SparseTables(EntriesOf(jee))
    /\ MatcherIdle
    /\ OrchestratorIdle

\* Both taxonomy files, one score per entry.
InitFallback ==
    /\ \E jee \in FileStates("JEE", MaxSiblingEntries),
          neet \in FileStates("NEET", MaxSiblingEntries) :
        /\ files = FilesWith(jee, neet)
        /\ score \in EntryTables(EntriesOf(jee) \cup EntriesOf(neet))
    /\ MatcherIdle
    /\ OrchestratorIdle

(***************************************************************************)
(* Operations of the matcher                                               *)
(***************************************************************************)
ParserUnchanged == UNCHANGED <<raw, inner, payload, res>> /\ OrchestratorUnchanged

MatchSubtopic ==
    /\ op = "idle"
    /\ \E exam_type \in Exams, subject \in Subjects :
        LET m == match_subtopic(cache, files, score, exam_type, subject)
        IN  /\ op' = "match_subtopic"
            /\ args' = [exam_type |-> exam_type, subject |-> subject, questions |-> <<>>]
            /\ result' = m.result
            /\ cache' = m.cache
    /\ UNCHANGED <<files, ref_cache, score>>
    /\ ParserUnchanged

AppMatch ==
    /\ op = "idle"
    /\ \E exam_type \in Exams, subject \in Subjects :
        LET m == AppMatchSubtopic(ref_cache, files, score, exam_type, subject)
        IN  /\ op' = "app_match_subtopic"
            /\ args' = [exam_type |-> exam_type, subject |-> subject, questions |-> <<>>]
            /\ result' = m.result
            /\ ref_cache' = m.cache
    /\ UNCHANGED <<files, cache, score>>
    /\ ParserUnchanged

MatchAll ==
    /\ op = "idle"
    /\ \E exam_type \in Exams, questions \in QuestionLists :
        LET m == match_all(cache, files, score, questions, exam_type, 1, <<>>, <<>>)
        IN  /\ op' = "match_all"
            /\ args' = [exam_type |-> exam_type, subject |-> "Physics", questions |-> questions]
            /\ result' = [raised |-> m.raised, questions |-> m.questions,
                          consulted |-> m.consulted]
            /\ cache' = m.cache
    /\ UNCHANGED <<files, ref_cache, score>>
    /\ ParserUnchanged

AppAnalyzeMatching ==
    /\ op = "idle"
    /\ \E exam_type \in Exams, questions \in QuestionLists :
        LET m == AppMatchStep(ref_cache, files, score, questions, exam_type, "Physics",
                     1, <<>>, <<>>)
        IN  /\ op' = "app_matching"
            /\ args' = [exam_type |-> exam_type, subject |-> "Physics", questions |-> questions]
            /\ result' = [raised |-> m.raised, questions |-> m.questions,
                          consulted |-> m.consulted]
            /\ ref_cache' = m.cache
    /\ UNCHANGED <<files, cache, score>>
    /\ ParserUnchanged

NextMatch == MatchSubtopic \/ AppMatch
NextFallback == MatchAll \/ AppAnalyzeMatching

SpecMatch == InitMatch /\ [][NextMatch]_vars
SpecFallback == InitFallback /\ [][NextFallback]_vars

(***************************************************************************)
(* Response Normalizer: the text of a response                             *)
(*                                                                         *)
(* A response is a sequence of tokens: the fence of three backticks, a     *)
(* newline, the word                                                       *)
(* json, the braces, the member "questions": [...], the member             *)
(* "exam_type": "JEE", the number 1 and a word of prose.                   *)
(***************************************************************************)
MaxTokens == 4       \* tokens of a raw response

FENCE == "<fence>"
NEWLINE == "\n"
JSON_TAG == "json"
LBRACE == "{"
RBRACE == "}"
QUESTIONS_MEMBER == "questions: [...]"
EXAM_MEMBER == "exam_type: JEE"
NUMBER == "1"
PROSE == "Here"

Tokens == {FENCE, NEWLINE, JSON_TAG, LBRACE, RBRACE, QUESTIONS_MEMBER, EXAM_MEMBER,
           NUMBER, PROSE}

Whitespace == {NEWLINE}

\* str.strip()
RECURSIVE Strip(_)
Strip(t) ==
    IF t = <<>> THEN t
    ELSE IF t[1] \in Whitespace THEN Strip(Tail(t))
    ELSE IF t[Len(t)] \in Whitespace THEN Strip(SubSeq(t, 1, Len(t) - 1))
    ELSE t

\* content.startswith(tok)
StartsWith(t, tok) == t # <<>> /\ t[1] = tok

\* content.endswith(tok)
EndsWith(t, tok) == t # <<>> /\ t[Len(t)] = tok

Positions(t, tok) == {i \in DOMAIN t : t[i] = tok}

Min(S) == CHOOSE x \in S : \A y \in S : x <= y
Max(S) == CHOOSE x \in S : \A y \in S : y <= x

\* content.find(tok): the 0-based index of the first occurrence, or -1
Find(t, tok) == IF Positions(t, tok) = {} THEN -1 ELSE Min(Positions(t, tok)) - 1

\* content.rfind(tok): the 0-based index of the last occurrence, or -1
RFind(t, tok) == IF Positions(t, tok) = {} THEN -1 ELSE Max(Positions(t, tok)) - 1

\* content[start:end], 0-based, end excluded
Slice(t, start, end) == SubSeq(t, start + 1, end)

\* content.rsplit("\n", 1)[-1]: what follows the last newline.
AfterLastNewline(t) ==
    IF Find(t, NEWLINE) < 0 THEN t ELSE Slice(t, RFind(t, NEWLINE) + 1, Len(t))

\* content.split("\n", 1)[-1]: what follows the first newline, or the whole
\* text when it has no newline.
AfterFirstNewline(t) ==
    IF Find(t, NEWLINE) < 0 THEN t ELSE Slice(t, Find(t, NEWLINE) + 1, Len(t))

\* content.rsplit(fence, 1)[0]: what precedes the last fence.
BeforeLastFence(t) ==
    IF RFind(t, FENCE) < 0 THEN t ELSE Slice(t, 0, RFind(t, FENCE))

\* Lines 149-158: strip, drop the line of the opening fence, drop the closing
\* fence, strip, drop a leading "json".
StripFences(raw_content) ==
    LET c1 == Strip(raw_content)
        c2 == IF StartsWith(c1, FENCE) THEN AfterFirstNewline(c1) ELSE c1
        c3 == IF EndsWith(c2, FENCE) THEN BeforeLastFence(c2) ELSE c2
        c4 == Strip(c3)
    IN  IF StartsWith(c4, JSON_TAG) THEN Strip(Tail(c4)) ELSE c4

\* What json.loads gives: the kind of the value, the keys of an object, and
\* the shape of the value of its key "questions" ("absent" without the key).
NotJson == [ok |-> FALSE, kind |-> "none", keys |-> {}, shape |-> "absent"]
JsonNumber == [ok |-> TRUE, kind |-> "number", keys |-> {}, shape |-> "absent"]
JsonNull == [ok |-> TRUE, kind |-> "null", keys |-> {}, shape |-> "absent"]
JsonArray == [ok |-> TRUE, kind |-> "array", keys |-> {}, shape |-> "absent"]
JsonString == [ok |-> TRUE, kind |-> "string", keys |-> {}, shape |-> "absent"]
JsonObject(keys, shape) == [ok |-> TRUE, kind |-> "object", keys |-> keys, shape |-> shape]

\* Further JSON values: null, the empty array, a string without the word
\* questions.
JSON_NULL == "null"
JSON_ARRAY == "[]"
JSON_STRING == "\"text\""

\* The member "questions" with a value that is no list of objects: null, the
\* empty object, a list of numbers, a list of strings.
QUESTIONS_NULL == "questions: null"
QUESTIONS_OBJECT == "questions: {}"
QUESTIONS_NUMBERS == "questions: [1]"
QUESTIONS_STRINGS == "questions: [\"Q1\"]"

\* The member "exam_type" with another value than "JEE"; they occur in the
\* replies to the orchestrator.
EXAM_NEET == "exam_type: NEET"
EXAM_UNKNOWN == "exam_type: UNKNOWN"
EXAM_NULL == "exam_type: null"

ExamMembers == {EXAM_MEMBER, EXAM_NEET, EXAM_UNKNOWN, EXAM_NULL}
QuestionsMembers ==
    {QUESTIONS_MEMBER, QUESTIONS_NULL, QUESTIONS_OBJECT, QUESTIONS_NUMBERS, QUESTIONS_STRINGS}
Members == QuestionsMembers \cup ExamMembers

MemberKey(tok) == IF tok \in QuestionsMembers THEN "questions" ELSE "exam_type"

\* The shape of the value a member "questions" carries; "objects" is the list
\* of objects that is given apart from the text.
MemberShape(tok) ==
    CASE tok = QUESTIONS_NULL -> "null"
      [] tok = QUESTIONS_OBJECT -> "object"
      [] tok = QUESTIONS_NUMBERS -> "numbers"
      [] tok = QUESTIONS_STRINGS -> "strings"
      [] OTHER -> "objects"

\* The value of the key "questions" of an object: of a repeated key the last
\* member counts.
ShapeOf(members) ==
    LET qs == SelectSeq(members, LAMBDA tok : tok \in QuestionsMembers)
    IN  IF qs = <<>> THEN "absent" ELSE MemberShape(qs[Len(qs)])

\* json.loads on the tokens: whitespace is skipped between tokens; a value is
\* the number, null, the array, the string, or an object of any number of
\* members (a member token carries its comma; a repeated key is no error);
\* anything else is a JSONDecodeError.
loads(t) ==
    LET s == SelectSeq(t, LAMBDA tok : tok \notin Whitespace)
    IN  IF s = <<NUMBER>> THEN JsonNumber
        ELSE IF s = <<JSON_NULL>> THEN JsonNull
        ELSE IF s = <<JSON_ARRAY>> THEN JsonArray
        ELSE IF s = <<JSON_STRING>> THEN JsonString
        ELSE IF Len(s) >= 2 /\ s[1] = LBRACE /\ s[Len(s)] = RBRACE
                /\ \A i \in 2..(Len(s) - 1) : s[i] \in Members
        THEN JsonObject({MemberKey(s[i]) : i \in 2..(Len(s) - 1)},
                        ShapeOf(SubSeq(s, 2, Len(s) - 1)))
        ELSE NotJson

\* end = content.rfind("}"), the + 1 forgotten.
ExtractEnd_NoPlusOne(content) == RFind(content, RBRACE)

\* start = content.find("{")
ExtractStart(content) == Find(content, LBRACE)

\* end = content.rfind("}") + 1
ExtractEnd(content) == RFind(content, RBRACE) + 1

\* Lines 160-174: the decoded value, or not ok for the two ValueErrors.
Decoded(content) ==
    LET whole == loads(content)
        start == ExtractStart(content)
        end == ExtractEnd(content)
    IN  IF whole.ok THEN whole
        ELSE IF start >= 0 /\ end > start THEN loads(Slice(content, start, end))
        ELSE NotJson

(***************************************************************************)
(* Response Normalizer: the questions                                      *)
(***************************************************************************)
MaxBatch == 2        \* questions of one response
MaxMissing == 2      \* required fields one question lacks

Absent == [kind |-> "absent", n |-> 0, s |-> ""]
Null == [kind |-> "null", n |-> 0, s |-> ""]
IntValue(n) == [kind |-> "int", n |-> n, s |-> ""]
StrValue(s) == [kind |-> "str", n |-> 0, s |-> s]

\* f"Q.{n}"
Label(n) == [kind |-> "str", n |-> n, s |-> "Q."]

required == <<"sno", "question_text", "subject", "topic", "subtopic_name", "difficulty">>
RequiredSet == {required[i] : i \in DOMAIN required}
Fields == RequiredSet \cup {"question_label"}

\* str.strip() on the difficulty strings of the model
StripString(s) ==
    CASE s = " easy " -> "easy"
      [] s = "Difficult\n" -> "Difficult"
      [] OTHER -> s

\* str.capitalize() on the difficulty strings of the model
Capitalize(s) ==
    CASE s = "easy" -> "Easy"
      [] s = "MODERATE" -> "Moderate"
      [] OTHER -> s

Difficulties == {"Easy", "Moderate", "Difficult"}

\* k not in q
Missing(q, k) == q[k].kind = "absent"

\* A missing key is filled with a placeholder and then the loop is left.
FillMissing_First(q) ==
    LET first == CHOOSE i \in DOMAIN required :
                    /\ Missing(q, required[i])
                    /\ \A j \in 1..(i - 1) : ~Missing(q, required[j])
    IN  IF \E i \in DOMAIN required : Missing(q, required[i])
        THEN [q EXCEPT ![required[first]] =
                 IF required[first] = "sno" THEN IntValue(0) ELSE StrValue("Unknown")]
        ELSE q

\* for k in missing: q[k] = "Unknown" if k != "sno" else 0
FillMissing(q) ==
    [k \in DOMAIN q |->
        IF k \in RequiredSet /\ Missing(q, k)
        THEN (IF k = "sno" THEN IntValue(0) ELSE StrValue("Unknown"))
        ELSE q[k]]

\* q.get("difficulty", "").strip().capitalize() raises AttributeError on a
\* value that is no string.
DifficultyRaises(q) == q["difficulty"].kind \notin {"str", "absent"}

\* Lines 189-193
NormalDifficulty(q) ==
    LET d == IF Missing(q, "difficulty") THEN "" ELSE q["difficulty"].s
        diff == Capitalize(StripString(d))
    IN  IF diff \notin Difficulties THEN StrValue("Moderate") ELSE StrValue(diff)

\* Lines 196-197: f"Q.{q.get('sno', 0)}"
WithLabel(q) ==
    IF Missing(q, "question_label")
    THEN [q EXCEPT !["question_label"] =
             Label(IF Missing(q, "sno") THEN 0 ELSE q["sno"].n)]
    ELSE q

\* The body of the loop over parsed["questions"], for one question.
NormalizeQuestion(q) ==
    LET filled == FillMissing(q)
    IN  WithLabel([filled EXCEPT !["difficulty"] = NormalDifficulty(filled)])

\* "questions" not in parsed
LacksQuestions_ExamKey(parsed) == "exam_type" \notin parsed.keys

LacksQuestions(parsed) == "questions" \notin parsed.keys

Failure(status, parsed) == [status |-> status, questions |-> <<>>, decoded |-> parsed]

\* "questions" not in parsed raises TypeError on a value that is no
\* container: a number, null. (On the array and on the string of the model it
\* is true: they do not hold the word.)
MembershipRaises(parsed) == parsed.kind \in {"number", "null"}

\* for q in parsed["questions"] raises TypeError on null, and "k not in q" of
\* line 182 raises it on a question that is a number.
IterationRaises(parsed) == parsed.shape \in {"null", "numbers"}

\* A question that is a string lacks every required key, and the warning of
\* line 184 calls q.get on it: AttributeError.
GetRaises(parsed) == parsed.shape = "strings"

\* The loop over the empty object makes no turn: parsed is returned as it
\* is, its "questions" an object and no list.
Unlooped(parsed) == [status |-> "ok", questions |-> <<>>, decoded |-> parsed]

\* parse_ai_response: the questions of the response are given apart from its
\* text, as the value the member "questions" stands for.
parse_ai_response(raw_content, questions) ==
    LET content == StripFences(raw_content)
        parsed == Decoded(content)
    IN  IF ~parsed.ok THEN Failure("MalformedResponse", parsed)
        ELSE IF MembershipRaises(parsed) THEN Failure("TypeError", parsed)
        ELSE IF LacksQuestions(parsed) THEN Failure("MissingQuestionsField", parsed)
        ELSE IF IterationRaises(parsed) THEN Failure("TypeError", parsed)
        ELSE IF GetRaises(parsed) THEN Failure("AttributeError", parsed)
        ELSE IF parsed.shape = "object" THEN Unlooped(parsed)
        ELSE IF \E i \in DOMAIN questions : DifficultyRaises(FillMissing(questions[i]))
        THEN Failure("AttributeError", parsed)
        ELSE [status |-> "ok",
              questions |-> [i \in DOMAIN questions |-> NormalizeQuestion(questions[i])],
              decoded |-> parsed]

(***************************************************************************)
(* Inputs of the normalizer                                                *)
(***************************************************************************)
RECURSIVE TextsOfLength(_)
TextsOfLength(n) ==
    IF n = 0 THEN {<<>>}
    ELSE {Append(t, tok) : t \in TextsOfLength(n - 1), tok \in Tokens}

Texts == UNION {TextsOfLength(n) : n \in 0..MaxTokens}

\* A question as the classifier is asked to give it: all required fields, no
\* label.
CompleteQuestion(n) ==
    [k \in Fields |->
        CASE k = "sno" -> IntValue(n)
          [] k = "difficulty" -> StrValue(" easy ")
          [] k = "question_label" -> Absent
          [] OTHER -> StrValue(k)]

Without(q, absent) == [k \in DOMAIN q |-> IF k \in absent THEN Absent ELSE q[k]]

\* Questions lacking at most MaxMissing required fields.
DefectiveQuestions(n) ==
    {Without(CompleteQuestion(n), absent) : absent \in SubsetsUpTo(RequiredSet, MaxMissing)}

DefectiveBatches ==
    UNION {{b \in [1..n -> DefectiveQuestions(1) \cup DefectiveQuestions(2)] :
                \A i \in 1..n : b[i]["sno"].kind = "int" => b[i]["sno"].n = i} :
           n \in 1..MaxBatch}

DifficultyValues ==
    {Absent, Null, IntValue(3)} \cup
        {StrValue(s) : s \in {"Easy", " easy ", "MODERATE", "Difficult\n", "Hard", ""}}

GradedQuestions ==
    {[CompleteQuestion(1) EXCEPT !["difficulty"] = d, !["question_label"] = l] :
        d \in DifficultyValues, l \in {Absent, StrValue("1(a)")}}

GradedBatches == UNION {[1..n -> GradedQuestions] : n \in 1..MaxBatch}

ResponseWithQuestions == <<LBRACE, QUESTIONS_MEMBER, RBRACE>>

MaxMembers == 2      \* members of a decoded object

RECURSIVE MembersOfLength(_)
MembersOfLength(n) ==
    IF n = 0 THEN {<<>>}
    ELSE {Append(t, tok) : t \in MembersOfLength(n - 1), tok \in Members}

ShapeTexts ==
    {<<NUMBER>>, <<JSON_NULL>>, <<JSON_ARRAY>>, <<JSON_STRING>>}
        \cup {<<LBRACE>> \o m \o <<RBRACE>> :
                m \in UNION {MembersOfLength(n) : n \in 0..MaxMembers}}

MatcherUnused ==
    /\ files = FilesWith(MissingFile, MissingFile)
    /\ cache = EmptyCache
    /\ ref_cache = EmptyCache
    /\ score = EmptyCache
    /\ op = "idle"
    /\ args = NoArgs
    /\ result = NoResult

\* Any text of at most MaxTokens tokens, around one complete question.
InitParse ==
    /\ raw \in Texts
    /\ inner = <<>>
    /\ payload = <<CompleteQuestion(1)>>
    /\ res = NoRes
    /\ MatcherUnused
    /\ OrchestratorIdle

\* A JSON value of any shape: a bare number, null, array or string, or an
\* object of at most MaxMembers members, around one complete question.
InitShapes ==
    /\ raw \in ShapeTexts
    /\ inner = <<>>
    /\ payload = <<CompleteQuestion(1)>>
    /\ res = NoRes
    /\ MatcherUnused
    /\ OrchestratorIdle

\* A well-formed response whose questions lack required fields.
InitMissing ==
    /\ raw = ResponseWithQuestions
    /\ inner = <<>>
    /\ payload \in DefectiveBatches
    /\ res = NoRes
    /\ MatcherUnused
    /\ OrchestratorIdle

\* A well-formed response whose questions carry any difficulty value.
InitDifficulty ==
    /\ raw = ResponseWithQuestions
    /\ inner = <<>>
    /\ payload \in GradedBatches
    /\ res = NoRes
    /\ MatcherUnused
    /\ OrchestratorIdle

(***************************************************************************)
(* Operations of the normalizer                                            *)
(***************************************************************************)
MatcherUnchanged ==
    UNCHANGED <<files, cache, ref_cache, score, op, args, result>> /\ OrchestratorUnchanged

OpeningFences == {<<FENCE, NEWLINE>>, <<FENCE, JSON_TAG, NEWLINE>>, <<FENCE, PROSE, NEWLINE>>}
ClosingFences == {<<FENCE>>, <<NEWLINE, FENCE>>}

\* The classifier wraps its JSON object in a fenced code block.
Fence ==
    /\ res.status = "none"
    /\ inner = <<>>
    /\ loads(raw).kind = "object"
    /\ \E open \in OpeningFences, close \in ClosingFences :
        raw' = open \o raw \o close
    /\ inner' = raw
    /\ UNCHANGED <<payload, res>>
    /\ MatcherUnchanged

ParseAiResponse ==
    /\ res.status = "none"
    /\ res' = parse_ai_response(raw, payload)
    /\ UNCHANGED <<raw, inner, payload>>
    /\ MatcherUnchanged

NextParse == Fence \/ ParseAiResponse
NextNormalize == ParseAiResponse

SpecParse == InitParse /\ [][NextParse]_vars
SpecShapes == InitShapes /\ [][NextParse]_vars
SpecMissing == InitMissing /\ [][NextNormalize]_vars
SpecDifficulty == InitDifficulty /\ [][NextNormalize]_vars

(***************************************************************************)
(* Claims about the matcher                                                *)
(***************************************************************************)
Matched == op \in {"match_subtopic", "app_match_subtopic"}

\* The taxonomy the lookup was made in.
TaxonomyAsked == files[args.exam_type][args.subject]

\* The best score over all (query, candidate) pairs of a taxonomy.
BestScoreOver(rows) ==
    Max({0} \cup {score[x] : x \in ScoreKeys({rows[i] : i \in DOMAIN rows})})

\* C1: for a non-empty taxonomy, match_subtopic returns "N/A" exactly when
\* the best score over all pairs is below 60, and the confidence it returns is
\* that best score either way.
C1_NAExactlyBelowThreshold ==
    (Matched /\ TaxonomyAsked.kind = "rows" /\ TaxonomyAsked.rows # <<>>)
        => /\ ~result.raised
           /\ (result.subtopic_number = NA) <=> (BestScoreOver(TaxonomyAsked.rows) < 60)
           /\ result.confidence = BestScoreOver(TaxonomyAsked.rows)

\* C2: the confidence lies in 0..100, and a confidence of at least 60 comes
\* with the number, name and unit of one entry of the taxonomy asked.
C2_ConfidenceRangeAndEntry ==
    (Matched /\ ~result.raised)
        => /\ result.confidence \in 0..100
           /\ result.confidence >= 60 =>
                \E i \in DOMAIN TaxonomyAsked.rows :
                    /\ result.subtopic_number = TaxonomyAsked.rows[i].subtopic_number
                    /\ result.matched_name = TaxonomyAsked.rows[i].subtopic_name
                    /\ result.unit_name = TaxonomyAsked.rows[i].unit_name

C2_Witness ==
    /\ Matched
    /\ Len(TaxonomyAsked.rows) = MaxEntries
    /\ result.confidence >= 60
    /\ result.subtopic_number = TaxonomyAsked.rows[MaxEntries].subtopic_number

\* C3: with an empty taxonomy or no taxonomy file, match_subtopic does not
\* raise and returns "N/A", confidence 0, no matched name and no unit name.
C3_EmptyTaxonomyDegrades ==
    (Matched /\ (TaxonomyAsked.kind = "missing"
                    \/ (TaxonomyAsked.kind = "rows" /\ TaxonomyAsked.rows = <<>>)))
        => /\ ~result.raised
           /\ result.subtopic_number = NA
           /\ result.confidence = 0
           /\ result.matched_name = None
           /\ result.unit_name = None

C3_Witness ==
    /\ op = "match_subtopic"
    /\ TaxonomyAsked.kind = "missing"
    /\ args.subject = "Physics"
    /\ result.subtopic_number = NA

\* The primary and the sibling lookup of the i-th question of match_all.
PrimaryOf(i) ==
    match_subtopic(EmptyCache, files, score, args.exam_type,
        SubjectOf(args.questions[i])).result
SiblingOf(i) ==
    match_subtopic(EmptyCache, files, score, Sibling(args.exam_type),
        SubjectOf(args.questions[i])).result

\* C4: in match_all, a question whose primary confidence is below 60 carries
\* the sibling exam's result when the sibling confidence is strictly higher,
\* and the primary result otherwise (equal confidence included).
C4_FallbackAdoptsStrictlyHigher ==
    op = "match_all" =>
        \A i \in DOMAIN result.questions :
            PrimaryOf(i).confidence < 60 =>
                /\ SiblingOf(i).confidence > PrimaryOf(i).confidence
                    => result.questions[i] = Attach(args.questions[i], SiblingOf(i))
                /\ SiblingOf(i).confidence <= PrimaryOf(i).confidence
                    => result.questions[i] = Attach(args.questions[i], PrimaryOf(i))

\* Primary 40 against JEE, sibling 75 against NEET: the NEET number, 75.
C4_Witness ==
    /\ op = "match_all"
    /\ args.exam_type = "JEE"
    /\ \E i \in DOMAIN result.questions :
        /\ PrimaryOf(i).confidence = 40
        /\ result.questions[i].match_confidence = 75
        /\ result.questions[i].subtopic_number = SubtopicNumbers["NEET"][1]

Parsed == res.status # "none"

\* The sequence without its j-th element.
Remove(seq, j) == [i \in 1..(Len(seq) - 1) |-> IF i < j THEN seq[i] ELSE seq[i + 1]]

\* C6: a response whose questions lack required fields parses; the result
\* has the same questions in the same order; an absent field holds its
\* placeholder (0 for sno, "Unknown" for a string, which the difficulty step
\* turns into "Moderate"), a present one its value; and every other question
\* comes out as it does from the response without the defective one.
C6_MissingFieldsFilled ==
    Parsed =>
        /\ res.status = "ok"
        /\ Len(res.questions) = Len(payload)
        /\ \A i \in DOMAIN payload : \A k \in RequiredSet :
            /\ (payload[i][k].kind = "absent" /\ k = "sno")
                => res.questions[i][k] = IntValue(0)
            /\ (payload[i][k].kind = "absent" /\ k \notin {"sno", "difficulty"})
                => res.questions[i][k] = StrValue("Unknown")
            /\ (payload[i][k].kind = "absent" /\ k = "difficulty")
                => res.questions[i][k] = StrValue("Moderate")
            /\ (payload[i][k].kind # "absent" /\ k # "difficulty")
                => res.questions[i][k] = payload[i][k]
            /\ (payload[i][k].kind # "absent" /\ k = "difficulty")
                => res.questions[i][k] = StrValue("Easy")
        /\ \A j \in DOMAIN payload :
            parse_ai_response(raw, Remove(payload, j)).questions = Remove(res.questions, j)

C6_Witness ==
    /\ res.status = "ok"
    /\ Len(payload) = MaxBatch
    /\ payload[1]["sno"].kind = "absent"
    /\ payload[1]["topic"].kind = "absent"
    /\ \A k \in RequiredSet : payload[MaxBatch][k].kind # "absent"
    /\ res.questions[1]["sno"] = IntValue(0)
    /\ res.questions[1]["question_label"] = Label(0)

\* C7: every question of a parsed response has difficulty Easy, Moderate or
\* Difficult: a value that is one of the three after trimming and
\* capitalizing is kept in that form, any other value or a missing one, of
\* any type, becomes Moderate, and the parse does not fail.
C7_DifficultyAlwaysCanonical ==
    Parsed =>
        /\ res.status = "ok"
        /\ Len(res.questions) = Len(payload)
        /\ \A i \in DOMAIN payload :
            LET given == payload[i]["difficulty"]
                kept == given.kind = "str" /\ Capitalize(StripString(given.s)) \in Difficulties
            IN  /\ res.questions[i]["difficulty"].kind = "str"
                /\ res.questions[i]["difficulty"].s \in Difficulties
                /\ kept => res.questions[i]["difficulty"].s = Capitalize(StripString(given.s))
                /\ ~kept => res.questions[i]["difficulty"].s = "Moderate"

\* C8: a JSON object text between an opening fence line (with or without a
\* language tag) and a closing fence parses to what the text alone parses to.
C8_FenceTransparent ==
    (Parsed /\ inner # <<>>) => res = parse_ai_response(inner, payload)

C8_Witness ==
    /\ res.status = "ok"
    /\ inner # <<>>
    /\ Positions(inner, NEWLINE) # {}
    /\ raw[2] = JSON_TAG
    /\ raw[Len(raw) - 1] = NEWLINE

\* The text from the first "{" to the last "}" of the fence-stripped text
\* (empty when there is none).
BraceSpan(content) ==
    IF Positions(content, LBRACE) = {} \/ Positions(content, RBRACE) = {}
    THEN <<>>
    ELSE SubSeq(content, Min(Positions(content, LBRACE)), Max(Positions(content, RBRACE)))

\* C9: parse_ai_response fails as malformed exactly when neither the
\* fence-stripped text nor its span from the first "{" to the last "}" decodes
\* (so a text that does not decode and has no "{" is malformed); when only
\* the span decodes, parsing goes on with the span's value.
C9_MalformedExactly ==
    Parsed =>
        LET content == StripFences(raw)
            wholeOk == loads(content).ok
            spanOk == loads(BraceSpan(content)).ok
        IN  /\ (res.status = "MalformedResponse") <=> (~wholeOk /\ ~spanOk)
            /\ (~wholeOk /\ Positions(content, LBRACE) = {})
                => res.status = "MalformedResponse"
            /\ (~wholeOk /\ spanOk)
                => /\ res.decoded = loads(BraceSpan(content))
                   /\ res.status \in {"ok", "MissingQuestionsField"}

C9_Witness ==
    /\ res.status = "ok"
    /\ inner = <<>>
    /\ raw[1] = PROSE
    /\ ~loads(StripFences(raw)).ok

\* C10: a decoded object without the key questions fails with the
\* missing-questions error and yields no question list; with the key, that
\* error does not occur.
C10_QuestionsKeyRequired ==
    (Parsed /\ res.decoded.ok /\ res.decoded.kind = "object") =>
        /\ "questions" \notin res.decoded.keys
            => (res.status = "MissingQuestionsField" /\ res.questions = <<>>)
        /\ "questions" \in res.decoded.keys
            => res.status # "MissingQuestionsField"

C10_Witness ==
    /\ res.status = "MissingQuestionsField"
    /\ res.decoded.keys = {"exam_type"}
    /\ res.questions = <<>>

(***************************************************************************)
(* Orchestrator: chunk_pages                                               *)
(***************************************************************************)
MaxPagesChunked == 4     \* pages handed to chunk_pages on its own
MaxLimit == 3            \* max_pages_per_chunk, beside the default

DefaultPagesPerChunk == 8

PageImages == {"p", "q"}

\* page_images[i:i + n]: a Python slice stops at the end of the list.
PySlice(t, i, n) == Slice(t, i, Min({i + n, Len(t)}))

\* page_images[i:i + max_pages_per_chunk - 1]
ChunkAt_OneShort(pages, i, limit) == PySlice(pages, i, limit - 1)

\* page_images[i:i + max_pages_per_chunk]
ChunkAt(pages, i, limit) == PySlice(pages, i, limit)

\* for i in range(0, len(page_images), max_pages_per_chunk): chunks.append(...)
RECURSIVE ChunkLoop(_, _, _, _)
ChunkLoop(pages, limit, i, acc) ==
    IF i >= Len(pages) THEN acc
    ELSE ChunkLoop(pages, limit, i + limit, Append(acc, ChunkAt(pages, i, limit)))

chunk_pages(pages, limit) == ChunkLoop(pages, limit, 0, <<>>)

RECURSIVE SeqsOfLength(_, _)
SeqsOfLength(S, n) ==
    IF n = 0 THEN {<<>>}
    ELSE {Append(t, x) : t \in SeqsOfLength(S, n - 1), x \in S}

PageLists == UNION {SeqsOfLength(PageImages, n) : n \in 0..MaxPagesChunked}

InitChunk ==
    /\ page_images \in PageLists
    /\ max_pages_per_chunk \in (1..MaxLimit) \cup {DefaultPagesPerChunk}
    /\ chunks = <<>>
    /\ AnalyzeIdle
    /\ RestIdle
    /\ MatcherUnused
    /\ raw = <<>> /\ inner = <<>> /\ payload = <<>> /\ res = NoRes

ChunkPages ==
    /\ op = "idle"
    /\ op' = "chunk_pages"
    /\ chunks' = chunk_pages(page_images, max_pages_per_chunk)
    /\ UNCHANGED <<files, cache, ref_cache, score, args, result>>
    /\ UNCHANGED <<parser_vars, page_images, max_pages_per_chunk, analyze_vars, rest_vars>>

NextChunk == ChunkPages

SpecChunk == InitChunk /\ [][NextChunk]_vars

(***************************************************************************)
(* Claims about chunk_pages                                                *)
(***************************************************************************)
RECURSIVE Flatten(_)
Flatten(ss) == IF ss = <<>> THEN <<>> ELSE Head(ss) \o Flatten(Tail(ss))

\* ceil(n / k)
Ceil(n, k) == (n + k - 1) \div k

\* C14: chunk_pages returns ceil(n/k) chunks, none empty, none longer than
\* k, all but the last of exactly k pages, whose concatenation in order is
\* the input; an empty input gives no chunk.
C14_ChunksPartitionPages ==
    op = "chunk_pages" =>
        LET n == Len(page_images)
            k == max_pages_per_chunk
        IN  /\ Len(chunks) = Ceil(n, k)
            /\ \A c \in DOMAIN chunks :
                /\ chunks[c] # <<>>
                /\ Len(chunks[c]) <= k
                /\ c < Len(chunks) => Len(chunks[c]) = k
            /\ Flatten(chunks) = page_images
            /\ n = 0 => chunks = <<>>

\* Four pages under a limit of three: a full chunk and a last one of one page.
C14_Witness ==
    /\ op = "chunk_pages"
    /\ Len(page_images) = 4
    /\ max_pages_per_chunk = 3
    /\ Len(chunks) = 2
    /\ Len(chunks[2]) = 1

(***************************************************************************)
(* Orchestrator: analyze, under the /analyze endpoint of the modular       *)
(* service (src/docx_generator.py)                                         *)
(***************************************************************************)
MaxChunks == 2       \* chunks of one job
MaxPerReply == 2     \* questions in the reply to one chunk

\* Page counts: none, one, a full chunk, and one page into each further chunk.
PageCounts ==
    {0, DefaultPagesPerChunk}
        \cup {DefaultPagesPerChunk * (c - 1) + 1 : c \in 1..MaxChunks}

SuppliedExams == {None, "UNKNOWN", "JEE"}

\* A value that Python takes as true in "if not detected_exam".
Truthy(v) == v \notin {None, ""}

ExamValue(tok) ==
    CASE tok = EXAM_MEMBER -> "JEE"
      [] tok = EXAM_NEET -> "NEET"
      [] tok = EXAM_UNKNOWN -> "UNKNOWN"
      [] tok = EXAM_NULL -> None

\* parsed.get("exam_type", "UNKNOWN") on the text that was decoded; of a
\* repeated key the last value stands.
ReportedExam(raw_content) ==
    LET content == StripFences(raw_content)
        text == IF loads(content).ok THEN content
                ELSE Slice(content, ExtractStart(content), ExtractEnd(content))
        at == {i \in DOMAIN text : text[i] \in ExamMembers}
    IN  IF at = {} THEN "UNKNOWN" ELSE ExamValue(text[Max(at)])

\* if not detected_exam or detected_exam == "UNKNOWN": the later report is taken too
Undetected_Always(exam) == TRUE

\* if not detected_exam or detected_exam == "UNKNOWN"
Undetected(exam) == ~Truthy(exam) \/ exam = "UNKNOWN"

\* A chunk whose reply does not parse is passed over.
ChunkOutcome_SkipsBadReply(reply) ==
    LET parsed == parse_ai_response(reply.content, reply.questions)
    IN  IF reply.raised THEN [raised |-> TRUE, questions |-> <<>>, exam_type |-> None]
        ELSE IF parsed.status # "ok"
        THEN [raised |-> FALSE, questions |-> <<>>, exam_type |-> "UNKNOWN"]
        ELSE [raised |-> FALSE, questions |-> parsed.questions,
              exam_type |-> ReportedExam(reply.content)]

\* Lines 230-233: call_openrouter and parse_ai_response on one chunk; either
\* may raise, and analyze catches nothing.
ChunkOutcome(reply) ==
    LET parsed == parse_ai_response(reply.content, reply.questions)
    IN  IF reply.raised \/ parsed.status # "ok"
        THEN [raised |-> TRUE, questions |-> <<>>, exam_type |-> None]
        ELSE [raised |-> FALSE, questions |-> parsed.questions,
              exam_type |-> ReportedExam(reply.content)]

\* if len(chunks) >= 1
ManyChunks_OneOrMore(cs) == Len(cs) >= 1

\* if len(chunks) > 1
ManyChunks(cs) == Len(cs) > 1

\* q["sno"] = idx; q["question_label"] = f"Q.{idx}", with the 0-based idx
Renumber_ZeroBased(all) ==
    [idx \in DOMAIN all |->
        [all[idx] EXCEPT !["sno"] = IntValue(idx - 1), !["question_label"] = Label(idx - 1)]]

\* Lines 242-244: q["sno"] = idx + 1; q["question_label"] = f"Q.{idx + 1}"
Renumber(all) ==
    [idx \in DOMAIN all |->
        [all[idx] EXCEPT !["sno"] = IntValue(idx), !["question_label"] = Label(idx)]]

\* The except clause of the endpoint
Failed == [status |-> "failed", error |-> TRUE, processing_time |-> TRUE, questions_count |-> 0]

Completed(questions) ==
    [status |-> "completed", error |-> FALSE, processing_time |-> TRUE,
     questions_count |-> Len(questions)]

\* Questions as a classifier numbers them: its own number, no number at all,
\* its own label.
Numbered == CompleteQuestion(5)
Unnumbered == Without(CompleteQuestion(5), {"sno"})
Labelled == [CompleteQuestion(1) EXCEPT !["question_label"] = StrValue("1(a)")]

\* The questions of one reply: numbered ones, the last of which may be a
\* question without number or with a label of its own.
ReplyBatches ==
    UNION {{b \in [1..n -> {Numbered, Unnumbered, Labelled}] :
                \A i \in 1..(n - 1) : b[i] = Numbered} : n \in 0..MaxPerReply}

Content(members) == <<LBRACE>> \o members \o <<RBRACE>>

\* What comes back for one chunk: the call raises, or the text does not
\* parse, or it parses, with or without an exam type beside its questions.
Replies ==
    {[raised |-> TRUE, content |-> <<>>, questions |-> <<>>],
     [raised |-> FALSE, content |-> <<PROSE>>, questions |-> <<>>],
     [raised |-> FALSE, content |-> Content(<<EXAM_MEMBER>>), questions |-> <<>>]}
    \cup {[raised |-> FALSE, content |-> Content(<<QUESTIONS_MEMBER>>), questions |-> b] :
            b \in ReplyBatches}
    \cup {[raised |-> FALSE, content |-> Content(<<e, QUESTIONS_MEMBER>>),
           questions |-> <<Numbered>>] : e \in ExamMembers}

InitAnalyze ==
    /\ \E n \in PageCounts : page_images = [i \in 1..n |-> "p"]
    /\ max_pages_per_chunk = DefaultPagesPerChunk
    /\ chunks = <<>>
    /\ supplied \in SuppliedExams
    /\ replies = <<>>
    /\ all_results = <<>>
    /\ detected_exam = None
    /\ pc = "idle"
    /\ analysis = NoAnalysis
    /\ answer = NoAnswer
    /\ documents = {}
    /\ RestIdle
    /\ MatcherUnused
    /\ raw = <<>> /\ inner = <<>> /\ payload = <<>> /\ res = NoRes

AnalyzeFrame ==
    UNCHANGED <<matcher_vars, parser_vars, page_images, max_pages_per_chunk, supplied,
                rest_vars>>

\* The endpoint up to the call of analyze, and analyze up to its loop.
EndpointBegin ==
    /\ pc = "idle"
    /\ IF page_images = <<>>
       THEN /\ pc' = "rejected"
            /\ answer' = Failed
            /\ UNCHANGED <<chunks, all_results, detected_exam>>
       ELSE /\ pc' = "loop"
            /\ chunks' = chunk_pages(page_images, DefaultPagesPerChunk)
            /\ all_results' = <<>>
            /\ detected_exam' = supplied
            /\ UNCHANGED answer
    /\ UNCHANGED <<replies, analysis, documents>>
    /\ AnalyzeFrame

\* One turn of the loop over the chunks (lines 226-238).
AnalyzeChunk ==
    /\ pc = "loop"
    /\ Len(replies) < Len(chunks)
    /\ \E reply \in Replies :
        LET out == ChunkOutcome(reply)
        IN  /\ replies' = Append(replies, reply)
            /\ IF out.raised
               THEN /\ pc' = "raised"
                    /\ answer' = Failed
                    /\ UNCHANGED <<all_results, detected_exam>>
               ELSE /\ detected_exam' =
                        IF Undetected(detected_exam) THEN out.exam_type ELSE detected_exam
                    /\ all_results' = all_results \o out.questions
                    /\ UNCHANGED <<pc, answer>>
    /\ UNCHANGED <<chunks, analysis, documents>>
    /\ AnalyzeFrame

\* After the loop (lines 240-252).
AnalyzeReturn ==
    /\ pc = "loop"
    /\ Len(replies) = Len(chunks)
    /\ pc' = "returned"
    /\ analysis' = [exam_type |-> detected_exam,
                    questions |-> IF ManyChunks(chunks) THEN Renumber(all_results)
                                  ELSE all_results,
                    chunks_processed |-> Len(chunks)]
    /\ UNCHANGED <<chunks, replies, all_results, detected_exam, answer, documents>>
    /\ AnalyzeFrame

\* Steps 3 and 4 of the endpoint, taken to succeed.
EndpointComplete ==
    /\ pc = "returned"
    /\ pc' = "completed"
    /\ documents' = {"docx", "xlsx"}
    /\ answer' = Completed(analysis.questions)
    /\ UNCHANGED <<chunks, replies, all_results, detected_exam, analysis>>
    /\ AnalyzeFrame

NextAnalyze == EndpointBegin \/ AnalyzeChunk \/ AnalyzeReturn \/ EndpointComplete

SpecAnalyze == InitAnalyze /\ [][NextAnalyze]_vars

(***************************************************************************)
(* Claims about analyze                                                    *)
(***************************************************************************)
Returned == pc \in {"returned", "completed"}

\* What the Response Normalizer gave for the c-th chunk.
NormalizedOf(c) == parse_ai_response(replies[c].content, replies[c].questions).questions

\* The normalized questions of all chunks, in chunk order.
Concatenated == Flatten([c \in DOMAIN replies |-> NormalizedOf(c)])

\* A question but for its serial number and label.
Unnumber(q) == [q EXCEPT !["sno"] = Absent, !["question_label"] = Absent]

\* C11: after a job of more than one chunk, the i-th output question is the
\* i-th question of the concatenation (chunk order, then the order within the
\* chunk), with serial number i and label "Q.i".
C11_RenumberedAcrossChunks ==
    (Returned /\ Len(chunks) > 1) =>
        LET all == Concatenated
        IN  /\ Len(analysis.questions) = Len(all)
            /\ \A i \in DOMAIN analysis.questions :
                /\ analysis.questions[i]["sno"] = IntValue(i)
                /\ analysis.questions[i]["question_label"] = Label(i)
                /\ Unnumber(analysis.questions[i]) = Unnumber(all[i])

\* Two chunks whose replies both number their question 5, and one question
\* that came with a label of its own.
C11_Witness ==
    /\ Returned
    /\ Len(chunks) = 2
    /\ replies[1].questions = <<Numbered, Labelled>>
    /\ replies[2].questions = <<Numbered>>
    /\ analysis.questions[3]["sno"] = IntValue(3)
    /\ analysis.questions[2]["question_label"] = Label(2)

\* C12: after a job of exactly one chunk, every output question has the
\* serial number and the label the Response Normalizer gave it.
C12_SingleChunkPassthrough ==
    (Returned /\ Len(chunks) = 1) =>
        LET normalized == NormalizedOf(1)
        IN  /\ Len(analysis.questions) = Len(normalized)
            /\ \A i \in DOMAIN analysis.questions :
                /\ analysis.questions[i]["sno"] = normalized[i]["sno"]
                /\ analysis.questions[i]["question_label"] = normalized[i]["question_label"]

\* One chunk: the classifier's label and its number 5 come out as they were.
C12_Witness ==
    /\ Returned
    /\ Len(chunks) = 1
    /\ replies[1].questions = <<Numbered, Labelled>>
    /\ analysis.questions[2]["question_label"] = StrValue("1(a)")
    /\ analysis.questions[1]["sno"] = IntValue(5)
    /\ analysis.questions[1]["question_label"] = Label(5)

\* C13: after analyze completes, no two output questions have the same
\* serial number.
C13_SerialNumbersUnique ==
    Returned =>
        \A i, j \in DOMAIN analysis.questions :
            i # j => analysis.questions[i]["sno"] # analysis.questions[j]["sno"]

\* The exam type was not supplied: absent or UNKNOWN.
NotSupplied == supplied \in {None, "", "UNKNOWN"}

KnownReports == {c \in DOMAIN replies : ~Undetected(ReportedExam(replies[c].content))}

\* C16 as stated: without a supplied exam type the result carries the report
\* of the first chunk, whatever later chunks report; with one, the supplied
\* type.
C16_FirstChunkWins ==
    (Returned /\ Len(chunks) >= 1) =>
        IF NotSupplied
        THEN analysis.exam_type = ReportedExam(replies[1].content)
        ELSE analysis.exam_type = supplied

\* C16 amended: without a supplied exam type the result carries the report of
\* the first chunk that reports a known exam type (a value that is neither
\* empty nor UNKNOWN), whatever later chunks report, and the report of the
\* last chunk when no chunk reports one; with a known type supplied, the
\* supplied type.
C16_FirstDetectionWins ==
    (Returned /\ Len(chunks) >= 1) =>
        IF NotSupplied
        THEN IF KnownReports # {}
             THEN analysis.exam_type = ReportedExam(replies[Min(KnownReports)].content)
             ELSE analysis.exam_type = ReportedExam(replies[Len(replies)].content)
        ELSE analysis.exam_type = supplied

\* The first chunk reports no type, the second JEE, and JEE it is; what the
\* first chunk reported is UNKNOWN.
C16_Witness ==
    /\ Returned
    /\ supplied = None
    /\ Len(chunks) = 2
    /\ ReportedExam(replies[1].content) = "UNKNOWN"
    /\ replies[2].content = Content(<<EXAM_MEMBER, QUESTIONS_MEMBER>>)
    /\ analysis.exam_type = "JEE"

\* The call or the parse failed for this reply.
ReplyFails(reply) ==
    reply.raised \/ parse_ai_response(reply.content, reply.questions).status # "ok"

\* C18: when the call or the parse fails for a chunk, analyze returns
\* nothing, the endpoint answers "failed" with an error message and the
\* elapsed time and no questions, no document is written, and from then on
\* no chunk is dispatched and nothing of this changes.
C18_FailureAbortsJob ==
    /\ [](/\ (\E c \in DOMAIN replies : ReplyFails(replies[c])) => pc = "raised"
          /\ pc = "raised" =>
                /\ analysis = NoAnalysis
                /\ documents = {}
                /\ answer.status = "failed"
                /\ answer.error
                /\ answer.processing_time
                /\ answer.questions_count = 0)
    /\ [][pc = "raised" => UNCHANGED <<replies, analysis, documents, answer>>]_vars

\* The first chunk gave questions and the parse of the second failed.
C18_Witness ==
    /\ pc = "raised"
    /\ Len(chunks) = 2
    /\ Len(replies) = 2
    /\ replies[1].questions = <<Numbered>>
    /\ ~replies[2].raised
    /\ answer.status = "failed"

(***************************************************************************)
(* Text mode: the prompt of ai_analyze in the single-file service          *)
(* (src/app.py).  A question is its number and the length of its text.     *)
(***************************************************************************)
MaxTextQuestions == 51   \* questions extracted from one paper

PromptQuestions == 50
PromptTextChars == 500

\* f"Q{q['number']}: {q['text'][:500]}\n"
PromptEntry(q) == [number |-> q.number, chars |-> Min({q.chars, PromptTextChars})]

\* for q in questions[:50]: q_text += ...
PromptOf(questions) ==
    [i \in 1..Min({Len(questions), PromptQuestions}) |-> PromptEntry(questions[i])]

\* Papers of questions of one length, one of them maybe longer.
Papers ==
    {[i \in 1..n |-> [number |-> i, chars |-> IF i = long THEN 501 ELSE short]] :
        n \in 1..MaxTextQuestions, long \in 0..2, short \in {10, 500}}

InitText ==
    /\ extracted \in Papers
    /\ q_text = <<>>
    /\ CallerIdle
    /\ StoreIdle
    /\ ChunkerIdle
    /\ AnalyzeIdle
    /\ MatcherUnused
    /\ raw = <<>> /\ inner = <<>> /\ payload = <<>> /\ res = NoRes

\* Lines 144-146 of ai_analyze
BuildPrompt ==
    /\ op = "idle"
    /\ op' = "ai_analyze"
    /\ q_text' = PromptOf(extracted)
    /\ UNCHANGED <<files, cache, ref_cache, score, args, result>>
    /\ UNCHANGED <<parser_vars, chunk_vars, analyze_vars, extracted, caller_vars, store_vars>>

NextText == BuildPrompt

SpecText == InitText /\ [][NextText]_vars

(***************************************************************************)
(* Claims about text mode                                                  *)
(***************************************************************************)
\* The character budget of a chunk
CharBudget == 15 * 1000

\* The size a question is accounted with: its text, its label "Q<number>" and
\* the colon, blank and newline around it.
Accounted(entry) == entry.chars + (IF entry.number < 10 THEN 2 ELSE 3) + 3

RECURSIVE Sum(_, _)
Sum(f, k) == IF k = 0 THEN 0 ELSE f[k] + Sum(f, k - 1)

AccountedSize(entries) == Sum([i \in DOMAIN entries |-> Accounted(entries[i])], Len(entries))

\* C15: every input question is sent whole in exactly one chunk (here the one
\* prompt), a chunk holds at least one question, and its accounted size
\* exceeds the budget of 15,000 characters only when it holds one question.
C15_TextChunksWholeAndBounded ==
    op = "ai_analyze" =>
        /\ Len(q_text) = Len(extracted)
        /\ \A i \in DOMAIN q_text : q_text[i] = extracted[i]
        /\ Len(q_text) >= 1
        /\ AccountedSize(q_text) > CharBudget => Len(q_text) = 1

(***************************************************************************)
(* The classifier call: call_openrouter (src/ai_analyzer.py), which        *)
(* retries by calling itself, and the attempt loop of ai_analyze           *)
(* (src/app.py)                                                            *)
(***************************************************************************)
RetryLimit == 2          \* if retry < 2
RetryDelay == 3          \* time.sleep(3)
AppAttempts == 3         \* for attempt in range(3)
AppRetryDelay == 2       \* time.sleep(2)

\* What one requests.post can come to: a 200 with a usable body, a 200 whose
\* body lacks the content, another status, a timeout.
HttpOutcomes == {"ok", "bad_body", "status", "timeout"}

\* An activation of call_openrouter: its retry argument and where it stands,
\* in its try block (posting, or waiting for the call of line 132) or in its
\* except clause (waiting for the call of line 143).
Activation(retry, at) == [retry |-> retry, at |-> at]

Front(t) == SubSeq(t, 1, Len(t) - 1)

Running(fs, slept) == [frames |-> fs, status |-> "running", slept |-> slept]
Ended(status, slept) == [frames |-> <<>>, status |-> status, slept |-> slept]

\* An activation calls itself with retry + 1 and waits at the given place.
Recurse(fs, at) ==
    LET f == fs[Len(fs)]
    IN  Append(Append(Front(fs), Activation(f.retry, at)), Activation(f.retry + 1, "try"))

\* An exception raised in the innermost activation, or coming out of the call
\* it waits for: "except requests.exceptions.Timeout" catches a Timeout
\* raised inside the try block (which holds the call of line 132), and
\* nothing else; lines 140-144.
RECURSIVE Propagate(_, _, _)
Propagate(fs, exc, slept) ==
    IF fs = <<>> THEN Ended(exc, slept)
    ELSE LET f == fs[Len(fs)]
         IN  IF f.at = "try" /\ exc = "Timeout" /\ f.retry < RetryLimit
             THEN Running(Recurse(fs, "handler"), slept)
             ELSE Propagate(Front(fs), exc, slept)

\* Lines 118-138 for the innermost activation.
OnPost(fs, outcome) ==
    LET f == fs[Len(fs)]
    IN  CASE outcome = "ok" -> Ended("returned", <<>>)
          [] outcome = "bad_body" -> Propagate(fs, "KeyError", <<>>)
          [] outcome = "timeout" -> Propagate(fs, "Timeout", <<>>)
          [] outcome = "status" ->
                IF f.retry < RetryLimit
                THEN Running(Recurse(fs, "try"), <<RetryDelay>>)
                ELSE Propagate(fs, "RuntimeError", <<>>)

InitCall ==
    /\ CallerIdle
    /\ TextIdle
    /\ StoreIdle
    /\ ChunkerIdle
    /\ AnalyzeIdle
    /\ MatcherUnused
    /\ raw = <<>> /\ inner = <<>> /\ payload = <<>> /\ res = NoRes

CallFrame ==
    UNCHANGED <<matcher_vars, parser_vars, chunk_vars, analyze_vars, text_vars, store_vars>>

\* call_openrouter(model_id, messages) up to its first post; without an API
\* key it raises at once.
CallOpenrouter ==
    /\ call = NoCall
    /\ \E api_key \in BOOLEAN :
        IF api_key
        THEN /\ call' = [who |-> "call_openrouter", status |-> "running"]
             /\ frames' = <<Activation(0, "try")>>
        ELSE /\ call' = [who |-> "call_openrouter", status |-> "ValueError"]
             /\ UNCHANGED frames
    /\ UNCHANGED <<posts, sleeps, attempt>>
    /\ CallFrame

\* One requests.post of call_openrouter and all that follows it up to the
\* next post or the end of the call.
HttpAttempt ==
    /\ call = [who |-> "call_openrouter", status |-> "running"]
    /\ \E outcome \in HttpOutcomes :
        LET next == OnPost(frames, outcome)
        IN  /\ posts' = Append(posts, outcome)
            /\ frames' = next.frames
            /\ sleeps' = sleeps \o next.slept
            /\ call' = [call EXCEPT !.status = next.status]
    /\ UNCHANGED attempt
    /\ CallFrame

\* ai_analyze of app.py up to its loop.
AppAiAnalyze ==
    /\ call = NoCall
    /\ \E api_key \in BOOLEAN :
        call' = [who |-> "ai_analyze", status |-> IF api_key THEN "running" ELSE "ValueError"]
    /\ attempt' = 0
    /\ UNCHANGED <<frames, posts, sleeps>>
    /\ CallFrame

\* One turn of "for attempt in range(3)": any exception of the post or of the
\* decoding is caught; lines 178-203.
AppHttpAttempt ==
    /\ call = [who |-> "ai_analyze", status |-> "running"]
    /\ \E outcome \in HttpOutcomes :
        /\ posts' = Append(posts, outcome)
        /\ IF outcome = "ok"
           THEN /\ call' = [call EXCEPT !.status = "returned"]
                /\ UNCHANGED <<attempt, sleeps>>
           ELSE IF attempt = AppAttempts - 1
           THEN /\ call' = [call EXCEPT !.status = "ValueError"]
                /\ UNCHANGED <<attempt, sleeps>>
           ELSE /\ sleeps' = Append(sleeps, AppRetryDelay)
                /\ attempt' = attempt + 1
                /\ UNCHANGED call
    /\ UNCHANGED frames
    /\ CallFrame

NextCall == CallOpenrouter \/ HttpAttempt \/ AppAiAnalyze \/ AppHttpAttempt

SpecCall == InitCall /\ [][NextCall]_vars

(***************************************************************************)
(* Claims about the classifier call                                        *)
(***************************************************************************)
Transient == {"status", "timeout"}

\* Every attempt so far failed, by a timeout or a status other than 200.
AllTransient == \A i \in DOMAIN posts : posts[i] \in Transient

\* No attempt met a 200 with an unusable body.
OnlyTransientFailures == \A i \in DOMAIN posts : posts[i] \in Transient \cup {"ok"}

\* C17: whatever the mix of timeouts and non-success statuses, one classifier
\* call makes at most three HTTP attempts, returns at the first success
\* without a further attempt, and raises when three attempts have failed.
C17_AtMostThreeAttempts ==
    OnlyTransientFailures =>
        /\ Len(posts) <= 3
        /\ \A i \in DOMAIN posts : posts[i] = "ok" => (i = Len(posts) /\ call.status = "returned")
        /\ call.status = "returned" => (posts # <<>> /\ posts[Len(posts)] = "ok")
        /\ (Len(posts) = 3 /\ AllTransient) =>
                call.status \in {"Timeout", "RuntimeError", "ValueError"}

\* The attempts issued after a failed one: every attempt but the first, and
\* the one a running call is about to make.
Retries ==
    IF call.status = "running" THEN Len(posts)
    ELSE IF posts = <<>> THEN 0
    ELSE Len(posts) - 1

\* The delay of the implementation that is running.
FixedDelay == IF call.who = "call_openrouter" THEN RetryDelay ELSE AppRetryDelay

\* C22: every retry of a classifier call comes after the fixed delay, after
\* a timeout as after a non-success status: there are as many sleeps of the
\* fixed length as there are retries.
C22_DelayBeforeEveryRetry ==
    call.who # "none" =>
        /\ Len(sleeps) = Retries
        /\ \A i \in DOMAIN sleeps : sleeps[i] = FixedDelay

(***************************************************************************)
(* Reference Store, statement by statement: load_reference as run by       *)
(* request threads, and clear_cache                                        *)
(***************************************************************************)
MaxEnded == 4        \* load_reference calls and cache clears of one run
MaxThreads == 2      \* request threads racing in load_reference
MaxStoreRows == 1    \* rows of the taxonomy file that changes

Impls == {"module", "app"}

StoreKeys == {Key(e, "Physics") : e \in Exams}

IdleThread(impl) ==
    [impl |-> impl, pc |-> "idle", key |-> Key("JEE", "Physics"), rows |-> <<>>,
     accessed |-> FALSE]

\* A call that ended: what it returned or that it raised, and whether it
\* touched the file system.
LoadEnded(t, rows, raised) ==
    [kind |-> "load", impl |-> t.impl, key |-> t.key, rows |-> rows, raised |-> raised,
     accessed |-> t.accessed]

Cleared ==
    [kind |-> "clear", impl |-> "module", key |-> Key("JEE", "Physics"), rows |-> <<>>,
     raised |-> FALSE, accessed |-> FALSE]

FileOf(fs, key) == fs[key[1]][key[2]]

Step(t, c, event) == [thread |-> t, cache |-> c, event |-> event]

Return(t, c, rows) ==
    Step([t EXCEPT !.pc = "idle", !.rows = <<>>], c, <<LoadEnded(t, rows, FALSE)>>)

Raise(t, c) ==
    Step([t EXCEPT !.pc = "idle", !.rows = <<>>], c, <<LoadEnded(t, <<>>, TRUE)>>)

\* A missing file: [] is returned and nothing is stored.
OnMissing_NotCached(t, c) == Return(t, c, <<>>)

\* Lines 25-28: _cache[key] = []; return []
OnMissing(t, c) == Return(t, CachePut(c, t.key, <<>>), <<>>)

\* The rows read are added to what the cache holds for the key.
StoreRows_Extend(t, c) ==
    LET held == IF t.key \in DOMAIN c THEN c[t.key] ELSE <<>>
    IN  Return(t, CachePut(c, t.key, held \o t.rows), held \o t.rows)

\* Lines 33-35: _cache[key] = rows; return rows
StoreRows(t, c) == Return(t, CachePut(c, t.key, t.rows), t.rows)

\* open() or json.load raised: the module lets it out, app.py caches [].
OnReadError(t, c) ==
    IF t.impl = "app" THEN Return(t, CachePut(c, t.key, <<>>), <<>>) ELSE Raise(t, c)

\* The next statement of load_reference for thread t, on the cache c of its
\* service and the files fs.
LoadStep(t, c, fs) ==
    LET f == FileOf(fs, t.key)
        touched == [t EXCEPT !.accessed = TRUE]
    IN  CASE t.pc = "test" ->
                IF t.key \in DOMAIN c THEN Return(t, c, c[t.key])
                ELSE Step([t EXCEPT !.pc = "exists"], c, <<>>)
          [] t.pc = "exists" ->
                IF f.kind = "missing" THEN OnMissing(touched, c)
                ELSE Step([touched EXCEPT !.pc = "open"], c, <<>>)
          [] t.pc = "open" ->
                IF f.kind = "rows"
                THEN Step([touched EXCEPT !.pc = "store", !.rows = f.rows], c, <<>>)
                ELSE OnReadError(touched, c)
          [] t.pc = "store" -> StoreRows(t, c)

CacheOf(impl) == IF impl = "module" THEN cache ELSE ref_cache

InFlight == {i \in DOMAIN threads : threads[i].pc # "idle"}

StoreFrame ==
    UNCHANGED <<score, op, args, result, parser_vars, chunk_vars, analyze_vars, text_vars,
                caller_vars>>

StoreUnused ==
    /\ cache = EmptyCache
    /\ ref_cache = EmptyCache
    /\ score = EmptyCache
    /\ op = "idle"
    /\ args = NoArgs
    /\ result = NoResult
    /\ ended = <<>>
    /\ TextIdle
    /\ CallerIdle
    /\ ChunkerIdle
    /\ AnalyzeIdle
    /\ raw = <<>> /\ inner = <<>> /\ payload = <<>> /\ res = NoRes

\* One thread of the matcher module, the JEE file in any state.
InitStore ==
    /\ \E jee \in FileStates("JEE", MaxStoreRows) : files = FilesWith(jee, MissingFile)
    /\ threads = <<IdleThread("module")>>
    /\ StoreUnused

\* Threads of one service, cold cache, the JEE file in any state.
InitRace ==
    /\ \E jee \in FileStates("JEE", MaxStoreRows) : files = FilesWith(jee, MissingFile)
    /\ \E impl \in Impls : threads = [i \in 1..MaxThreads |-> IdleThread(impl)]
    /\ StoreUnused

\* A thread enters load_reference.
LoadCall ==
    /\ Len(ended) + Cardinality(InFlight) < MaxEnded
    /\ \E i \in DOMAIN threads, key \in StoreKeys :
        /\ threads[i].pc = "idle"
        /\ threads' = [threads EXCEPT ![i] =
                          [@ EXCEPT !.pc = "test", !.key = key, !.accessed = FALSE]]
    /\ UNCHANGED <<files, cache, ref_cache, ended>>
    /\ StoreFrame

\* A thread runs its next statement.
LoadNext ==
    /\ \E i \in InFlight :
        LET t == threads[i]
            next == LoadStep(t, CacheOf(t.impl), files)
        IN  /\ threads' = [threads EXCEPT ![i] = next.thread]
            /\ ended' = ended \o next.event
            /\ IF t.impl = "module"
               THEN cache' = next.cache /\ UNCHANGED ref_cache
               ELSE ref_cache' = next.cache /\ UNCHANGED cache
    /\ UNCHANGED files
    /\ StoreFrame

\* clear_cache(), between calls
ClearCache ==
    /\ InFlight = {}
    /\ Len(ended) < MaxEnded
    /\ cache' = EmptyCache
    /\ ended' = Append(ended, Cleared)
    /\ UNCHANGED <<files, ref_cache, threads>>
    /\ StoreFrame

\* The JEE taxonomy file is replaced, removed or damaged on disk.
ChangeFile ==
    /\ \E jee \in FileStates("JEE", MaxStoreRows) :
        /\ files # FilesWith(jee, MissingFile)
        /\ files' = FilesWith(jee, MissingFile)
    /\ UNCHANGED <<cache, ref_cache, threads, ended>>
    /\ StoreFrame

NextStore == LoadCall \/ LoadNext \/ ClearCache \/ ChangeFile
NextRace == LoadCall \/ LoadNext

SpecStore == InitStore /\ [][NextStore]_vars
SpecRace == InitRace /\ [][NextRace]_vars

(***************************************************************************)
(* Claims about the reference store                                        *)
(***************************************************************************)
IsLoad(j) == ended[j].kind = "load"

\* The calls before the j-th event that loaded the same key and returned,
\* with no clear_cache between them and the j-th event.
LoadedBefore(j) ==
    {i \in 1..(j - 1) :
        /\ IsLoad(i)
        /\ ~ended[i].raised
        /\ ended[i].key = ended[j].key
        /\ \A k \in (i + 1)..(j - 1) : ended[k].kind # "clear"}

\* C19: a load_reference for a key already loaded since the last clear_cache
\* touches no file and returns what that earlier load returned, the empty
\* taxonomy of a missing file too; a load of a key not loaded since the last
\* clear_cache goes to the file system.
C19_CachedUntilCleared ==
    \A j \in DOMAIN ended :
        IsLoad(j) =>
            IF LoadedBefore(j) # {}
            THEN /\ ~ended[j].accessed
                 /\ ~ended[j].raised
                 /\ \A i \in LoadedBefore(j) : ended[j].rows = ended[i].rows
            ELSE ended[j].accessed

\* The file was missing at the first load and has rows by the second, which
\* still returns the empty taxonomy without looking; after clear_cache the
\* third load reads the rows.
C19_Witness ==
    /\ Len(ended) = 4
    /\ \A j \in {1, 2, 4} : IsLoad(j) /\ ended[j].key = Key("JEE", "Physics")
    /\ ended[1].accessed /\ ended[1].rows = <<>> /\ ~ended[1].raised
    /\ ~ended[2].accessed /\ ended[2].rows = <<>>
    /\ ended[3].kind = "clear"
    /\ ended[4].accessed /\ ended[4].rows = Rows("JEE", 1)

\* What the file of a key holds, [] standing for a missing file.
ContentsOf(key) ==
    IF FileOf(files, key).kind = "rows" THEN FileOf(files, key).rows ELSE <<>>

Returns(key) == {j \in DOMAIN ended : IsLoad(j) /\ ~ended[j].raised /\ ended[j].key = key}

\* C20: whatever the interleaving of the loads of one key from a cold cache
\* with the file unchanged, all calls that return give the same contents,
\* those of the file, whether they read the file or found the key cached,
\* and once no call is under way the cache holds these contents.
C20_RacingLoadsAgree ==
    \A key \in StoreKeys :
        /\ \A i, j \in Returns(key) : ended[i].rows = ended[j].rows
        /\ \A j \in Returns(key) : ended[j].rows = ContentsOf(key)
        /\ (InFlight = {} /\ Returns(key) # {}) =>
                LET c == CacheOf(threads[1].impl)
                IN  key \in DOMAIN c /\ c[key] = ContentsOf(key)

\* Two threads both read the file of the same key, a redundant read, and a
\* later call found the key cached.
C20_Witness ==
    /\ InFlight = {}
    /\ Len(ended) = 3
    /\ \A j \in 1..3 : IsLoad(j) /\ ended[j].key = Key("JEE", "Physics")
                        /\ ended[j].rows = Rows("JEE", 1)
    /\ ended[1].accessed
    /\ ended[2].accessed
    /\ ~ended[3].accessed

(***************************************************************************)
(* Claims about ties and the two implementations of the matcher            *)
(***************************************************************************)
\* The best score an entry attains over its six (query, candidate) pairs.
EntryBest(r) == Max({score[x] : x \in ScoreKeys({r})})

\* The entries of the taxonomy asked that attain the highest score.
TopEntries ==
    {i \in DOMAIN TaxonomyAsked.rows :
        EntryBest(TaxonomyAsked.rows[i]) = BestScoreOver(TaxonomyAsked.rows)}

\* C21: when match_subtopic returns an entry, it is the first entry in file
\* order among those that attain the highest score; a later entry that only
\* equals the best score is never returned in its place.
C21_FirstInFileOrderWins ==
    (Matched /\ TaxonomyAsked.kind = "rows" /\ ~result.raised
            /\ result.subtopic_number # NA)
        => result.subtopic_number = TaxonomyAsked.rows[Min(TopEntries)].subtopic_number

\* What the other implementation of match_subtopic returns for the lookup
\* that was made.
OtherImplementation ==
    IF op = "match_subtopic"
    THEN AppMatchSubtopic(EmptyCache, files, score, args.exam_type, args.subject).result
    ELSE match_subtopic(EmptyCache, files, score, args.exam_type, args.subject).result

\* C23: for every taxonomy, score function and input, the matcher module and
\* the single-file service return the same subtopic_number, matched_name,
\* unit_name and confidence.
C23_ImplementationsAgree ==
    (Matched /\ TaxonomyAsked.kind \in {"rows", "missing"})
        => /\ result.subtopic_number = OtherImplementation.subtopic_number
           /\ result.matched_name = OtherImplementation.matched_name
           /\ result.unit_name = OtherImplementation.unit_name
           /\ result.confidence = OtherImplementation.confidence

(***************************************************************************)
(* Claims about the failures of the normalizer                             *)
(***************************************************************************)
\* The two failures parse_ai_response declares.
DeclaredErrors == {"MalformedResponse", "MissingQuestionsField"}

\* C24: on every text, parse_ai_response returns a result whose questions
\* are a list, or fails with a malformed response or a missing questions
\* field; no decodable JSON value, whatever its shape, makes it fail another
\* way.
C24_OnlyDeclaredFailures ==
    Parsed =>
        /\ res.status \in DeclaredErrors \cup {"ok"}
        /\ res.status = "ok" => res.decoded.shape = "objects"

====
